---- MODULE Spec2Model ----
(***************************************************************************)
(* A model of the AI quiz backend: the retry helper, the JSON extraction,  *)
(* the three prompt-pipeline operations of AIService, its construction at  *)
(* startup, and the handlers of the quiz routes, alone and side by side.   *)
(*                                                                         *)
(* Text is modelled as a sequence of tokens: a code fence (three           *)
(* backticks), the tag "json", whitespace, prose that is not JSON, and a   *)
(* complete JSON value.  JSON values are records of the keys the code      *)
(* reads; every key may be absent or hold a value of another type.         *)
(***************************************************************************)
EXTENDS Integers, Sequences, FiniteSets, TLC

VARIABLES
    text,           \* extractJSON: the argument
    extracted,      \* extractJSON: its outcome
    pc,             \* position of the request or pipeline operation in flight
    op,             \* pipeline operation in flight
    prompt,         \* the (questionText, correctAnswer, userAnswer) triples sent
    retries,        \* withRetry: retries left
    delay,          \* withRetry: the next sleep in ms
    attempts,       \* backend calls issued by the askAI in flight
    askCalls,       \* askAI invocations of the operation in flight
    sleeps,         \* the sleeps taken by the askAI in flight, in order
    lastCall,       \* what the latest backend call of the askAI in flight did
    raw,            \* the text askAI returned to the operation
    result,         \* outcome of the pipeline operation
    quiz,           \* the stored quiz with its questions, in the order of the table
    submissions,    \* the stored quiz submissions, oldest first
    req,            \* the request in flight
    ordered,        \* handler: orderedQuestions
    answerMap,      \* handler: answerMap
    response,       \* the response sent
    service,        \* AI_PROVIDER and the AIService the module exports
    hints,          \* the stored hints, oldest first
    generated,      \* the quizzes POST /generate stored, oldest first
    procs           \* the requests served side by side, one record each

extractVars == <<text, extracted>>
dbVars == <<quiz, submissions, hints, generated>>
handlerVars == <<req, ordered, answerMap, response>>
hostVars == <<service, procs>>

vars == <<text, extracted, pc, op, prompt, retries, delay, attempts, askCalls,
          sleeps, lastCall, raw, result, quiz, submissions, req, ordered,
          answerMap, response, service, hints, generated, procs>>

----------------------------------------------------------------------------
(* JavaScript values *)

Absent == [t |-> "absent", n |-> 0, s |-> "", b |-> FALSE]
JNum(n) == [t |-> "number", n |-> n, s |-> "", b |-> FALSE]
JStr(s) == [t |-> "string", n |-> 0, s |-> s, b |-> FALSE]
JBool(b) == [t |-> "boolean", n |-> 0, s |-> "", b |-> b]

\* a key holding an array: its items; any other type has no items
Field(t, items) == [t |-> t, items |-> items]
NoField == Field("absent", <<>>)

\* JavaScript truthiness of a key holding t (arrays and objects are truthy)
Truthy(f) == f.t \in {"array", "object", "number", "string", "true"}

\* the length property: arrays have one, numbers, objects and booleans do not
HasLength(f) == f.t \in {"array", "string"}
LengthOf(f) == IF f.t = "array" THEN Len(f.items) ELSE 1

\* a parsed JSON value: an object with the keys the code reads, null, or
\* another value (a number, a string, an array), on which every key is undefined
JObject(q, sc, mx, ev) ==
    [kind |-> "object", questions |-> q, score |-> sc, maxScore |-> mx,
     evaluations |-> ev, percentage |-> Absent]
JNull == [kind |-> "null", questions |-> NoField, score |-> Absent,
          maxScore |-> Absent, evaluations |-> NoField, percentage |-> Absent]
JOther == [kind |-> "other", questions |-> NoField, score |-> Absent,
           maxScore |-> Absent, evaluations |-> NoField, percentage |-> Absent]

\* the object v with a percentage key, which no code reads
WithPercentage(v, pct) == [v EXCEPT !.percentage = pct]

----------------------------------------------------------------------------
(* Numbers: the IEEE 754 doubles the handlers compute with.  A double that *)
(* is not zero is a sign, the exponent of its leading bit and the 52 bits   *)
(* after the leading bit, held as four digits of 13 bits each.  Integers of *)
(* the model stay below 4096 in magnitude.                                  *)

\* the base of the digits
Radix == 2^13

\* 0, and -0 when neg
DZero == [cls |-> "zero", neg |-> FALSE, exp |-> 0, frac |-> <<0, 0, 0, 0>>]
DFinite(neg, exp, frac) ==
    [cls |-> "finite", neg |-> neg, exp |-> exp, frac |-> frac]

\* the number of binary digits of n >= 1
BitLength(n) == CHOOSE k \in 1..30 : 2^(k - 1) <= n /\ n < 2^k

\* round to nearest, ties to even: guard is the digit after the fraction and
\* sticky says that non-zero digits follow it
RoundNearestEven(neg, exp, frac, guard, sticky) ==
    LET half == Radix \div 2
        up == /\ guard >= half
              /\ (guard > half \/ sticky \/ frac[4] % 2 = 1)
        s4 == frac[4] + 1
        s3 == frac[3] + s4 \div Radix
        s2 == frac[2] + s3 \div Radix
        s1 == frac[1] + s2 \div Radix
    IN IF ~up THEN DFinite(neg, exp, frac)
       ELSE IF s1 >= Radix THEN DFinite(neg, exp + 1, <<0, 0, 0, 0>>)
       ELSE DFinite(neg, exp, <<s1, s2 % Radix, s3 % Radix, s4 % Radix>>)

\* the double of an integer i of the model
FromInt(i) ==
    IF i = 0 THEN DZero
    ELSE LET magnitude == IF i < 0 THEN -i ELSE i
             len == BitLength(magnitude)
         IN DFinite(i < 0, len - 1,
                    <<(magnitude - 2^(len - 1)) * 2^(14 - len), 0, 0, 0>>)

\* the exponent of the leading bit of num / den
QuotientExponent(num, den) ==
    CHOOSE e \in -13..13 :
        IF e >= 0 THEN den * 2^e <= num /\ num < den * 2^(e + 1)
        ELSE den <= num * 2^(-e) /\ num * 2^(-e) < 2 * den

\* a / b of two integers, b # 0, as JavaScript computes it: long division,
\* a digit at a time; 0 / b has the sign of b
DoubleDivide(a, b) ==
    IF a = 0 THEN [DZero EXCEPT !.neg = b < 0]
    ELSE LET num == IF a < 0 THEN -a ELSE a
             den == IF b < 0 THEN -b ELSE b
             e == QuotientExponent(num, den)
             n == IF e >= 0 THEN num ELSE num * 2^(-e)
             m == IF e >= 0 THEN den * 2^e ELSE den
             r0 == n - m
             r1 == (r0 * Radix) % m
             r2 == (r1 * Radix) % m
             r3 == (r2 * Radix) % m
             r4 == (r3 * Radix) % m
             r5 == (r4 * Radix) % m
         IN RoundNearestEven((a < 0) # (b < 0), e,
                <<(r0 * Radix) \div m, (r1 * Radix) \div m,
                  (r2 * Radix) \div m, (r3 * Radix) \div m>>,
                (r4 * Radix) \div m, r5 # 0)

\* d * n of a double and an integer n, 1 <= n < 4096, as JavaScript computes
\* it: the product digit by digit, then shifted back to one leading bit
DoubleTimes(d, n) ==
    IF d.cls = "zero" THEN d
    ELSE LET p4 == d.frac[4] * n
             p3 == d.frac[3] * n + p4 \div Radix
             p2 == d.frac[2] * n + p3 \div Radix
             p1 == d.frac[1] * n + p2 \div Radix
             top == n + p1 \div Radix
             shift == BitLength(top) - 1
             low == 2^shift
             up == 2^(13 - shift)
             q1 == p1 % Radix
             q2 == p2 % Radix
             q3 == p3 % Radix
             q4 == p4 % Radix
         IN RoundNearestEven(d.neg, d.exp + shift,
                <<(top - low) * up + q1 \div low,
                  (q1 % low) * up + q2 \div low,
                  (q2 % low) * up + q3 \div low,
                  (q3 % low) * up + q4 \div low>>,
                (q4 % low) * up, FALSE)

\* a <= b of two doubles that are not negative
DoubleLeq(a, b) ==
    IF a.cls = "zero" THEN TRUE
    ELSE IF b.cls = "zero" THEN FALSE
    ELSE IF a.exp # b.exp THEN a.exp < b.exp
    ELSE \/ a.frac = b.frac
         \/ \E i \in 1..4 :
               /\ a.frac[i] < b.frac[i]
               /\ \A j \in 1..(i - 1) : a.frac[j] = b.frac[j]

----------------------------------------------------------------------------
(* Text *)

Tok(t) == [t |-> t, v |-> JNull]
Fence == Tok("F")
JsonTag == Tok("J")
Space == Tok("W")
Prose == Tok("X")
Val(v) == [t |-> "V", v |-> v]

RECURSIVE DropSpace(_)
DropSpace(s) ==
    IF s # <<>> /\ Head(s).t = "W" THEN DropSpace(Tail(s)) ELSE s

RECURSIVE DropSpaceEnd(_)
DropSpaceEnd(s) ==
    IF s # <<>> /\ s[Len(s)].t = "W"
    THEN DropSpaceEnd(SubSeq(s, 1, Len(s) - 1))
    ELSE s

\* String.prototype.trim
Trim(s) == DropSpaceEnd(DropSpace(s))

\* JSON.parse: one JSON value, surrounded by optional whitespace
JSONParse(s) ==
    LET c == Trim(s)
    IN IF Len(c) = 1 /\ c[1].t = "V"
       THEN [ok |-> TRUE, val |-> c[1].v]
       ELSE [ok |-> FALSE, val |-> JNull]

NoMatch == [found |-> FALSE, cap |-> <<>>]

\* the leftmost closing fence after position i
ClosingFence(s, i) ==
    CHOOSE k \in (i + 1)..Len(s) :
        /\ s[k].t = "F"
        /\ \A m \in (i + 1)..(k - 1) : s[m].t # "F"

\* text.match(/```json\s*([\s\S]*?)```/): the leftmost opening fence tagged
\* json that has a closing fence; the capture starts after the whitespace
MatchJsonFence(s) ==
    LET starts == {i \in 1..Len(s) :
                      /\ s[i].t = "F"
                      /\ i + 1 <= Len(s)
                      /\ s[i + 1].t = "J"
                      /\ \E k \in (i + 2)..Len(s) : s[k].t = "F"}
    IN IF starts = {} THEN NoMatch
       ELSE LET i == CHOOSE x \in starts : \A y \in starts : x <= y
                k == ClosingFence(s, i + 1)
            IN [found |-> TRUE, cap |-> DropSpace(SubSeq(s, i + 2, k - 1))]

\* text.match(/```([\s\S]*?)```/): the leftmost fence that has a closing fence
MatchAnyFence(s) ==
    LET starts == {i \in 1..Len(s) :
                      /\ s[i].t = "F"
                      /\ \E k \in (i + 1)..Len(s) : s[k].t = "F"}
    IN IF starts = {} THEN NoMatch
       ELSE LET i == CHOOSE x \in starts : \A y \in starts : x <= y
                k == ClosingFence(s, i)
            IN [found |-> TRUE, cap |-> SubSeq(s, i + 1, k - 1)]

\* the outcome of a call: a returned value (a JSON value, the value of a key,
\* or text) or a thrown error
Outcome(st, v, l, x, e) ==
    [status |-> st, val |-> v, list |-> l, txt |-> x, err |-> e]
Returned(v) == Outcome("ok", v, NoField, <<>>, "none")
ReturnedList(l) == Outcome("ok", JNull, l, <<>>, "none")
ReturnedText(x) == Outcome("ok", JNull, NoField, x, "none")
Thrown(e) == Outcome("throw", JNull, NoField, <<>>, e)
NoOutcome == Outcome("none", JNull, NoField, <<>>, "none")

InvalidJSON == "AI did not return valid JSON"
SyntaxError == "SyntaxError"

\* what return JSON.parse(x) does
ParseOrThrow(s) ==
    IF JSONParse(s).ok THEN Returned(JSONParse(s).val) ELSE Thrown(SyntaxError)

extractJSON(s) ==
    IF JSONParse(s).ok THEN Returned(JSONParse(s).val)
    ELSE IF MatchJsonFence(s).found THEN ParseOrThrow(MatchJsonFence(s).cap)
    ELSE IF MatchAnyFence(s).found THEN ParseOrThrow(MatchAnyFence(s).cap)
    ELSE Thrown(InvalidJSON)

----------------------------------------------------------------------------
(* Bounds and the values the environment supplies *)

MaxLen == 6          \* tokens of a text handed to extractJSON
MaxGen == 2          \* questions in a generated quiz
MaxEvals == 2        \* items of the evaluations array
MaxAnswers == 2      \* answers of a request

SeqsUpTo(S, n) == UNION {[1..k -> S] : k \in 0..n}

\* errors a backend call raises
BackendErrors == {"429 rate limit exceeded", "network error"}

AnswerStrs == {"Paris", "paris", ""}

\* the questions an AI response lists
AIQuestions ==
    {[questionText |-> "Capital of France?", correctAnswer |-> "Paris"],
     [questionText |-> "Capital of Italy?", correctAnswer |-> "Rome"]}

\* the values the questions key of an AI response holds
QuestionFields ==
    {Field(t, <<>>) : t \in {"absent", "null", "false", "zero", "emptystr",
                             "true", "number", "string", "object"}}
    \cup {Field("array", q) : q \in SeqsUpTo(AIQuestions, MaxGen)}

\* the items of the evaluations array of an AI response
EvalItems ==
    [userAnswer : {Absent, JStr("Rome")},
     isCorrect : {Absent, JBool(TRUE), JBool(FALSE), JStr("true")}]

EvalFields ==
    {NoField, Field("object", <<>>)}
    \cup {Field("array", e) : e \in SeqsUpTo(EvalItems, MaxEvals)}

\* the score and maxScore keys of an AI response: both absent, or both given
ScorePairs == {<<Absent, Absent>>, <<JNum(7), JNum(10)>>}

\* the totals an AI response gives: missing, zero, in range, out of range
ScoreVals == {Absent, JNum(0), JNum(7), JNum(15), JNum(-3)}
MaxScoreVals == {Absent, JNum(0), JNum(10), JNum(-5)}
PercentageVals == {Absent, JNum(99)}

QuizValues ==
    {JObject(q, Absent, Absent, NoField) : q \in QuestionFields}
    \cup {JNull, JOther}

EvalValues ==
    {JObject(NoField, sp[1], sp[2], ev) : sp \in ScorePairs, ev \in EvalFields}
    \cup {JNull}

\* the ways a backend wraps a JSON value, and texts holding no JSON
Wrapped(v) ==
    {<<Val(v)>>,
     <<Prose, Fence, JsonTag, Space, Val(v), Space, Fence>>,
     <<Fence, Val(v), Fence, Prose>>}
Garbage == {<<Prose>>, <<Fence, JsonTag, Prose, Fence>>}
HintTexts == {<<Prose>>, <<Space, Prose, Space>>}

SampleA ==
    JObject(Field("array", <<[questionText |-> "Capital of France?",
                              correctAnswer |-> "Paris"]>>),
            Absent, Absent, NoField)
SampleB == JObject(NoField, JNum(7), JNum(10), NoField)

QuizTexts == Garbage \cup UNION {Wrapped(v) : v \in QuizValues}
SampleEvalTexts == Garbage \cup Wrapped(SampleB) \cup Wrapped(JNull)
EvalTexts == Garbage \cup Wrapped(SampleB) \cup {<<Val(v)>> : v \in EvalValues}

TotalsValues ==
    {WithPercentage(JObject(NoField, sc, mx, NoField), pct) :
        sc \in ScoreVals, mx \in MaxScoreVals, pct \in PercentageVals}
TotalsTexts == {<<Val(v)>> : v \in TotalsValues}

\* what the backend answers an operation called on its own
PipelineTexts(o) ==
    IF o = "generateQuiz" THEN QuizTexts
    ELSE IF o = "evaluateQuiz" THEN SampleEvalTexts
    ELSE HintTexts

----------------------------------------------------------------------------
(* The AIService the module exports *)

\* provider names, a character at a time
groq == <<"g", "r", "o", "q">>
openai == <<"o", "p", "e", "n", "a", "i">>
gemini == <<"g", "e", "m", "i", "n", "i">>

\* process.env.AI_PROVIDER: a string, or undefined
EnvUnset == [set |-> FALSE, value |-> <<>>]
EnvSet(v) == [set |-> TRUE, value |-> v]

LowerChar(c) ==
    CASE c = "G" -> "g" [] c = "R" -> "r" [] c = "O" -> "o" [] c = "Q" -> "q"
      [] c = "E" -> "e" [] c = "M" -> "m" [] c = "I" -> "i" [] c = "N" -> "n"
      [] c = "P" -> "p" [] c = "A" -> "a" [] OTHER -> c

\* String.prototype.toLowerCase
ToLowerCase(v) == [i \in 1..Len(v) |-> LowerChar(v[i])]

\* (process.env.AI_PROVIDER || "groq").toLowerCase()
ProviderOf(env) ==
    ToLowerCase(IF env.set /\ env.value # <<>> THEN env.value ELSE groq)

AcceptsAnyProvider(provider) == TRUE

\* the branches of the constructor that set this.client
Recognized(provider) == provider \in {groq, openai, gemini}

InvalidProviderSetting ==
    "Invalid AI_PROVIDER. Use \"groq\", \"openai\", or \"gemini\"."
InvalidProvider == "Invalid AI provider configured."

\* the module before it is evaluated, and after: export default new AIService(),
\* or the error its constructor threw
Unloaded(env) == [env |-> env, state |-> "unloaded", provider |-> <<>>]
NewAIService(env) ==
    IF Recognized(ProviderOf(env))
    THEN [env |-> env, state |-> "ready", provider |-> ProviderOf(env)]
    ELSE [env |-> env, state |-> "failed", provider |-> ProviderOf(env)]

\* the backend call askAI makes for this.provider: chat.completions.create,
\* generateContent, or none
CallStyle(provider) ==
    IF provider \in {groq, openai} THEN "chat"
    ELSE IF provider = gemini THEN "generate"
    ELSE "none"

----------------------------------------------------------------------------
(* withRetry and askAI *)

DefaultRetries == 3
DefaultDelay == 700

RetryExhaustedLate(r) == r < 0

\* if (retries <= 0) throw err
RetryExhausted(r) == r <= 0

RethrownWrapped(e) == "AI request failed"

\* throw err: the error of the attempt is rethrown as it is
Rethrown(e) == e

NextDelayLinear(d) == d + 700

\* withRetry(fn, retries - 1, delay * 2)
NextDelay(d) == d * 2

NoRaw == <<Tok("none")>>

Served(r) == [ok |-> TRUE, err |-> "none", out |-> r]
Failed(e) == [ok |-> FALSE, err |-> e, out |-> NoRaw]
NoCall == [ok |-> FALSE, err |-> "none", out |-> NoRaw]

\* this.askAI(system, user, wantsJSON): withRetry(fn) with its defaults, and
\* the first call of fn
AskAI ==
    /\ askCalls' = askCalls + 1
    /\ retries' = DefaultRetries
    /\ delay' = DefaultDelay
    /\ attempts' = 1
    /\ sleeps' = <<>>
    /\ lastCall' = NoCall
    /\ raw' = NoRaw
    /\ result' = NoOutcome
    /\ pc' = "attempt"

\* await fn() throws e, the error of the backend or, with no backend for
\* this.provider, that of fn itself: the error is rethrown when no retry is
\* left, and with it the operation ends, for askAI and the operations catch
\* nothing
AttemptFails(e) ==
    /\ pc = "attempt"
    /\ (e = InvalidProvider) = (CallStyle(service.provider) = "none")
    /\ lastCall' = Failed(e)
    /\ IF RetryExhausted(retries)
       THEN /\ pc' = "raised"
            /\ result' = Thrown(Rethrown(e))
       ELSE /\ pc' = "sleep"
            /\ UNCHANGED result
    /\ UNCHANGED <<op, prompt, retries, delay, attempts, askCalls, sleeps, raw>>
    /\ UNCHANGED <<extractVars, dbVars, handlerVars, hostVars>>

\* the timer of the sleep fires and withRetry calls itself, which calls fn
WakeUp ==
    /\ pc = "sleep"
    /\ sleeps' = Append(sleeps, delay)
    /\ retries' = retries - 1
    /\ delay' = NextDelay(delay)
    /\ attempts' = attempts + 1
    /\ pc' = "attempt"
    /\ UNCHANGED <<op, prompt, askCalls, lastCall, raw, result>>
    /\ UNCHANGED <<extractVars, dbVars, handlerVars, hostVars>>

\* await fn() returns r, which withRetry and askAI return
AttemptSucceeds(r) ==
    /\ pc = "attempt"
    /\ CallStyle(service.provider) # "none"
    /\ lastCall' = Served(r)
    /\ raw' = r
    /\ pc' = "parse"
    /\ UNCHANGED <<op, prompt, retries, delay, attempts, askCalls, sleeps,
                   result>>
    /\ UNCHANGED <<extractVars, dbVars, handlerVars, hostVars>>

----------------------------------------------------------------------------
(* The pipeline operations *)

NoQuestions == "No quiz questions generated"
TypeError == "TypeError"

\* if (!parsed.questions || parsed.questions.length === 0) throw ...
\* return parsed.questions
CheckQuestions(parsed) ==
    IF parsed.kind = "null" THEN Thrown(TypeError)
    ELSE IF ~Truthy(parsed.questions) THEN Thrown(NoQuestions)
    ELSE IF HasLength(parsed.questions) /\ LengthOf(parsed.questions) = 0
    THEN Thrown(NoQuestions)
    ELSE ReturnedList(parsed.questions)

\* generateQuiz after askAI returned raw
generateQuizEnd(r) ==
    IF extractJSON(r).status = "throw" THEN extractJSON(r)
    ELSE CheckQuestions(extractJSON(r).val)

\* evaluateQuiz after askAI returned raw
evaluateQuizEnd(r) == extractJSON(r)

\* generateHint after askAI returned raw
generateHintEnd(r) == ReturnedText(Trim(r))

\* userAnswers[i] || ""
AnswerAt(userAnswers, i) ==
    IF i <= Len(userAnswers) THEN userAnswers[i] ELSE ""

\* the triples evaluateQuiz serialises into the user prompt
EvaluatePrompt(questions, userAnswers) ==
    [i \in 1..Len(questions) |->
        [questionText |-> questions[i].questionText,
         correctAnswer |-> questions[i].correctAnswer,
         userAnswer |-> AnswerAt(userAnswers, i)]]

\* the rest of the operation, once askAI has returned; the locals of withRetry
\* are gone with it
Finish ==
    /\ pc = "parse"
    /\ result' = IF op = "generateQuiz" THEN generateQuizEnd(raw)
                 ELSE IF op = "evaluateQuiz" THEN evaluateQuizEnd(raw)
                 ELSE generateHintEnd(raw)
    /\ pc' = IF result'.status = "ok" THEN "returned" ELSE "raised"
    /\ retries' = 0
    /\ delay' = 0
    /\ sleeps' = <<>>
    /\ attempts' = 0
    /\ lastCall' = NoCall
    /\ UNCHANGED <<op, prompt, askCalls, raw>>
    /\ UNCHANGED <<extractVars, dbVars, handlerVars, hostVars>>

----------------------------------------------------------------------------
(* The quiz routes: POST /submit and POST /retry/:quizId *)

Users == {"u1", "u2"}
QuizIds == {"quiz1", "missing"}

\* the questions of the stored quiz
Q1 == [id |-> "q1", questionNumber |-> 1,
       questionText |-> "Capital of France?", correctAnswer |-> "Paris"]
Q2 == [id |-> "q2", questionNumber |-> 2,
       questionText |-> "Capital of Italy?", correctAnswer |-> "Rome"]

\* the quiz POST /generate stored for u1; its score is NULL until a submit
StoredQuiz(qs) ==
    [id |-> "quiz1", userId |-> "u1", totalQuestions |-> 2, maxScore |-> 20,
     score |-> Absent, questions |-> qs]

\* the items of the answers array of a request body
AnswerItems ==
    [questionId : {"q1", "q2"},
     answer : {Absent, JStr("Paris"), JStr("paris")}]

NoRequest == [kind |-> "none", userId |-> "", quizId |-> "", answers |-> <<>>]
NoResponse == [status |-> 0, message |-> ""]
NoMap == [id \in {} |-> ""]

\* [...quiz.questions].sort((a, b) => a.questionNumber - b.questionNumber):
\* a stable sort, ascending
InsertByNumber(q, s) ==
    LET k == Cardinality({i \in 1..Len(s) :
                             s[i].questionNumber <= q.questionNumber})
    IN SubSeq(s, 1, k) \o <<q>> \o SubSeq(s, k + 1, Len(s))

Unsorted(qs) == qs

RECURSIVE SortByNumber(_)
SortByNumber(qs) ==
    IF qs = <<>> THEN <<>>
    ELSE InsertByNumber(qs[Len(qs)], SortByNumber(SubSeq(qs, 1, Len(qs) - 1)))

\* item.answer || ""
OrEmpty(v) == IF v.t = "string" THEN v.s ELSE ""

\* new Map(answers.map((item) => [item.questionId, item.answer || ""])):
\* a later item of the same questionId replaces an earlier one
AnswerMapOf(answers) ==
    [id \in {answers[i].questionId : i \in 1..Len(answers)} |->
        LET last == CHOOSE i \in 1..Len(answers) :
                        /\ answers[i].questionId = id
                        /\ \A j \in (i + 1)..Len(answers) :
                              answers[j].questionId # id
        IN OrEmpty(answers[last].answer)]

\* answerMap.get(question.id) || ""
GetOrEmpty(m, id) == IF id \in DOMAIN m THEN m[id] ELSE ""

\* orderedQuestions.map((question) => answerMap.get(question.id) || "")
UserAnswersFor(qs, m) == [i \in 1..Len(qs) |-> GetOrEmpty(m, qs[i].id)]

EmptyItem == [userAnswer |-> Absent, isCorrect |-> Absent]

\* (evaluation?.evaluations || [])[index] || {}
ItemAt(evaluation, index) ==
    IF /\ evaluation.evaluations.t = "array"
       /\ index <= Len(evaluation.evaluations.items)
    THEN evaluation.evaluations.items[index]
    ELSE EmptyItem

StoredUserAnswerEchoFirst(m, id, item) ==
    IF item.userAnswer.t # "absent" THEN item.userAnswer.s
    ELSE IF id \in DOMAIN m THEN m[id]
    ELSE ""

\* answerMap.get(question.id) ?? evaluationItem.userAnswer ?? ""
StoredUserAnswer(m, id, item) ==
    IF id \in DOMAIN m THEN m[id]
    ELSE IF item.userAnswer.t # "absent" THEN item.userAnswer.s
    ELSE ""

Lower(a) == IF a = "Paris" THEN "paris" ELSE IF a = "Rome" THEN "rome" ELSE a

LooseEquals(a, b) == Lower(a) = Lower(b)

\* userAnswer === question.correctAnswer
StrictEquals(a, b) == a = b

\* typeof evaluationItem.isCorrect === "boolean" ? evaluationItem.isCorrect
\*                                               : userAnswer === correctAnswer
StoredIsCorrect(item, userAnswer, question) ==
    IF item.isCorrect.t = "boolean" THEN item.isCorrect.b
    ELSE StrictEquals(userAnswer, question.correctAnswer)

QuestionSubmissionsPerItem(qs, m, evaluation) ==
    LET n == IF evaluation.evaluations.t = "array"
             THEN Len(evaluation.evaluations.items) ELSE 0
    IN [i \in 1..(IF n < Len(qs) THEN n ELSE Len(qs)) |->
           LET item == ItemAt(evaluation, i)
               userAnswer == StoredUserAnswer(m, qs[i].id, item)
           IN [questionId |-> qs[i].id,
               userAnswer |-> userAnswer,
               isCorrect |-> StoredIsCorrect(item, userAnswer, qs[i])]]

\* questionSubmissions: { create: orderedQuestions.map((question, index) => ...) }
QuestionSubmissions(qs, m, evaluation) ==
    [i \in 1..Len(qs) |->
        LET item == ItemAt(evaluation, i)
            userAnswer == StoredUserAnswer(m, qs[i].id, item)
        IN [questionId |-> qs[i].id,
            userAnswer |-> userAnswer,
            isCorrect |-> StoredIsCorrect(item, userAnswer, qs[i])]]

\* evaluation.score || 0
ScoreOf(evaluation) ==
    IF evaluation.score.t = "number" THEN evaluation.score.n ELSE 0

\* evaluation.maxScore || quiz.maxScore
MaxScoreOf(evaluation, q) ==
    IF evaluation.maxScore.t = "number" /\ evaluation.maxScore.n # 0
    THEN evaluation.maxScore.n
    ELSE q.maxScore

\* (score / maxScore) * 100
Percentage(score, maxScore) == DoubleTimes(DoubleDivide(score, maxScore), 100)

SubmissionOfTrusting(r, q, qs, m, evaluation) ==
    [quizId |-> r.quizId, userId |-> r.userId, via |-> r.kind,
     score |-> ScoreOf(evaluation),
     maxScore |-> MaxScoreOf(evaluation, q),
     percentage |-> IF evaluation.percentage.t = "number"
                    THEN FromInt(evaluation.percentage.n)
                    ELSE Percentage(ScoreOf(evaluation),
                                    MaxScoreOf(evaluation, q)),
     questionSubmissions |-> QuestionSubmissions(qs, m, evaluation)]

\* the data of prisma.quizSubmission.create; via is the route that stored it
SubmissionOf(r, q, qs, m, evaluation) ==
    [quizId |-> r.quizId, userId |-> r.userId, via |-> r.kind,
     score |-> ScoreOf(evaluation),
     maxScore |-> MaxScoreOf(evaluation, q),
     percentage |-> Percentage(ScoreOf(evaluation), MaxScoreOf(evaluation, q)),
     questionSubmissions |-> QuestionSubmissions(qs, m, evaluation)]

Parked ==
    /\ text = <<>>
    /\ extracted = NoOutcome

\* requests served side by side
MaxProcs == 2
ProcIds == 1..MaxProcs

\* a filter of the history query: omitted, or given with a value
Omitted == <<>>
Given(v) == <<v>>
NoFilters ==
    [grade |-> Omitted, subject |-> Omitted, from |-> Omitted, to |-> Omitted,
     minMarks |-> Omitted]

\* what a request asks: the route, req.userId, and the parameters of its
\* path, body and query
Route(kind, userId, quizId, questionId, submissionId, numQuestions, filters) ==
    [kind |-> kind, userId |-> userId, quizId |-> quizId,
     questionId |-> questionId, submissionId |-> submissionId,
     numQuestions |-> numQuestions, filters |-> filters]
NoRoute == Route("none", "", "", "", 0, 0, NoFilters)

\* a request being served: where its handler stands, what the AI service
\* gave it, the submission it created, and how often it called the AI
\* service and wrote to the database
NoReply == [status |-> 0, message |-> "", error |-> "", data |-> <<>>]
NoProc ==
    [pc |-> "idle", req |-> NoRoute, asked |-> 0, outcome |-> NoOutcome,
     created |-> 0, writes |-> 0, response |-> NoReply]

\* the server has started with AI_PROVIDER=groq and serves nothing yet
Started ==
    /\ service = NewAIService(EnvSet(groq))
    /\ procs = [p \in ProcIds |-> NoProc]

EmptyTables ==
    /\ hints = <<>>
    /\ generated = <<>>

Idle ==
    /\ pc = "idle"
    /\ op = "none"
    /\ prompt = <<>>
    /\ retries = 0
    /\ delay = 0
    /\ attempts = 0
    /\ askCalls = 0
    /\ sleeps = <<>>
    /\ lastCall = NoCall
    /\ raw = NoRaw
    /\ result = NoOutcome
    /\ req = NoRequest
    /\ ordered = <<>>
    /\ answerMap = NoMap
    /\ response = NoResponse

Init ==
    /\ Parked
    /\ Idle
    /\ Started
    /\ EmptyTables
    /\ quiz = StoredQuiz(<<Q1, Q2>>)
    /\ submissions = <<>>

\* aiService.generateQuiz(...) up to its await of askAI
CallGenerateQuiz ==
    /\ pc = "idle"
    /\ op' = "generateQuiz"
    /\ prompt' = <<>>
    /\ AskAI
    /\ req.kind = "none"
    /\ UNCHANGED <<extractVars, dbVars, handlerVars, hostVars>>

\* aiService.evaluateQuiz(questions, userAnswers) up to its await of askAI
CallEvaluateQuiz(questions, userAnswers) ==
    /\ pc = "idle"
    /\ op' = "evaluateQuiz"
    /\ prompt' = EvaluatePrompt(questions, userAnswers)
    /\ AskAI
    /\ req.kind = "none"
    /\ UNCHANGED <<extractVars, dbVars, handlerVars, hostVars>>

\* aiService.generateHint(...) up to its await of askAI
CallGenerateHint ==
    /\ pc = "idle"
    /\ op' = "generateHint"
    /\ prompt' = <<>>
    /\ AskAI
    /\ req.kind = "none"
    /\ UNCHANGED <<extractVars, dbVars, handlerVars, hostVars>>

\* the operation has returned or thrown to its caller
Return ==
    /\ pc \in {"returned", "raised"}
    /\ pc' = "idle"
    /\ op' = "none"
    /\ prompt' = <<>>
    /\ retries' = 0
    /\ delay' = 0
    /\ attempts' = 0
    /\ askCalls' = 0
    /\ sleeps' = <<>>
    /\ lastCall' = NoCall
    /\ raw' = NoRaw
    /\ result' = NoOutcome
    /\ req.kind = "none"
    /\ UNCHANGED <<extractVars, dbVars, handlerVars, hostVars>>

Next ==
    \/ CallGenerateQuiz
    \/ \E a \in SeqsUpTo(AnswerStrs, MaxAnswers) : CallEvaluateQuiz(<<Q1, Q2>>, a)
    \/ CallGenerateHint
    \/ \E e \in BackendErrors : AttemptFails(e)
    \/ WakeUp
    \/ \E r \in PipelineTexts(op) : AttemptSucceeds(r)
    \/ Finish
    \/ Return

Spec == Init /\ [][Next]_vars

\* a backend call ends, a timer fires and a continuation runs
FairSpec == Spec /\ WF_vars(Next)

----------------------------------------------------------------------------
(* Startup: the module of the service is evaluated before the server listens *)

GROQ == <<"G", "R", "O", "Q">>
Gemini == <<"G", "e", "m", "i", "n", "i">>
azure == <<"a", "z", "u", "r", "e">>

\* the values AI_PROVIDER is started with
ProviderSettings ==
    {EnvUnset, EnvSet(<<>>), EnvSet(groq), EnvSet(GROQ), EnvSet(openai),
     EnvSet(gemini), EnvSet(Gemini), EnvSet(azure)}

InitConfig ==
    /\ Parked
    /\ pc = "startup"
    /\ op = "none"
    /\ prompt = <<>>
    /\ retries = 0
    /\ delay = 0
    /\ attempts = 0
    /\ askCalls = 0
    /\ sleeps = <<>>
    /\ lastCall = NoCall
    /\ raw = NoRaw
    /\ result = NoOutcome
    /\ req = NoRequest
    /\ ordered = <<>>
    /\ answerMap = NoMap
    /\ response = NoResponse
    /\ \E env \in ProviderSettings : service = Unloaded(env)
    /\ procs = [p \in ProcIds |-> NoProc]
    /\ EmptyTables
    /\ quiz = StoredQuiz(<<Q1, Q2>>)
    /\ submissions = <<>>

\* import aiService from "../services/ai.service.js": the constructor runs;
\* when it throws, the import fails and the process ends before app.listen
LoadService ==
    /\ pc = "startup"
    /\ service' = NewAIService(service.env)
    /\ pc' = IF service'.state = "ready" THEN "idle" ELSE "crashed"
    /\ UNCHANGED <<op, prompt, retries, delay, attempts, askCalls, sleeps,
                   lastCall, raw, result, procs>>
    /\ UNCHANGED <<extractVars, dbVars, handlerVars>>

NextConfig ==
    \/ LoadService
    \/ Next

SpecConfig == InitConfig /\ [][NextConfig]_vars

----------------------------------------------------------------------------
(* The handlers of POST /submit and POST /retry/:quizId *)

pipelineVars == <<op, prompt, retries, delay, attempts, askCalls, sleeps,
                  lastCall, raw, result>>

\* the handler has sent its response: its locals are gone
Responded(r) ==
    /\ response' = r
    /\ pc' = "idle"
    /\ op' = "none"
    /\ prompt' = <<>>
    /\ retries' = 0
    /\ delay' = 0
    /\ attempts' = 0
    /\ askCalls' = 0
    /\ sleeps' = <<>>
    /\ lastCall' = NoCall
    /\ raw' = NoRaw
    /\ result' = NoOutcome
    /\ req' = NoRequest
    /\ ordered' = <<>>
    /\ answerMap' = NoMap

\* a request passes authentication and validation and the handler awaits
\* prisma.quiz.findUnique
ReceiveRequest(kind, userId, quizId, answers) ==
    /\ pc = "idle"
    /\ req' = [kind |-> kind, userId |-> userId, quizId |-> quizId,
               answers |-> answers]
    /\ response' = NoResponse
    /\ pc' = "findQuiz"
    /\ UNCHANGED <<pipelineVars, ordered, answerMap, extractVars, dbVars,
                   hostVars>>

\* the quiz is read: 404, 403, or the questions are ordered, the answers
\* looked up and aiService.evaluateQuiz is called.  The request body is not
\* read again, and the model forgets it.
QuizLookup ==
    /\ pc = "findQuiz"
    /\ IF req.quizId # quiz.id
       THEN Responded([status |-> 404, message |-> "Quiz not found"])
       ELSE IF quiz.userId # req.userId
       THEN Responded([status |-> 403, message |-> "Unauthorized"])
       ELSE /\ ordered' = SortByNumber(quiz.questions)
            /\ answerMap' = AnswerMapOf(req.answers)
            /\ req' = [req EXCEPT !.answers = <<>>]
            /\ op' = "evaluateQuiz"
            /\ prompt' = EvaluatePrompt(ordered',
                                        UserAnswersFor(ordered', answerMap'))
            /\ AskAI
            /\ UNCHANGED response
    /\ UNCHANGED <<extractVars, dbVars, hostVars>>

\* evaluateQuiz returned: prisma.quizSubmission.create, or the TypeError of
\* reading evaluation.score of null, which the handler catches
StoreSubmission ==
    /\ pc = "returned"
    /\ req.kind # "none"
    /\ IF result.val.kind = "null"
       THEN /\ Responded([status |-> 500, message |-> TypeError])
            /\ UNCHANGED dbVars
       ELSE /\ submissions' = Append(submissions,
                   SubmissionOf(req, quiz, ordered, answerMap, result.val))
            /\ pc' = "stored"
            /\ UNCHANGED <<pipelineVars, handlerVars, quiz, hints, generated>>
    /\ UNCHANGED <<extractVars, hostVars>>

\* evaluateQuiz threw: the catch block answers 500 with the error's message
HandleError ==
    /\ pc = "raised"
    /\ req.kind # "none"
    /\ Responded([status |-> 500, message |-> result.err])
    /\ UNCHANGED <<extractVars, dbVars, hostVars>>

\* POST /submit: prisma.quiz.update({ data: { score: submission.score } })
UpdateQuizScore ==
    /\ pc = "stored"
    /\ req.kind = "submit"
    /\ quiz' = [quiz EXCEPT !.score = JNum(submissions[Len(submissions)].score)]
    /\ pc' = "updated"
    /\ UNCHANGED <<pipelineVars, handlerVars, extractVars, submissions, hints,
                   generated, hostVars>>

\* res.json({ submissionId, ... })
Respond ==
    /\ \/ pc = "updated"
       \/ pc = "stored" /\ req.kind = "retry"
    /\ Responded([status |-> 200, message |-> "ok"])
    /\ UNCHANGED <<extractVars, dbVars, hostVars>>

\* the table hands the questions out in an order of its own
InitSubmit ==
    /\ Parked
    /\ Idle
    /\ Started
    /\ EmptyTables
    /\ quiz = StoredQuiz(<<Q2, Q1>>)
    /\ submissions = <<>>

\* the steps of a handler whose backend answers with one of texts
HandlerSteps(texts) ==
    \/ QuizLookup
    \/ \E e \in BackendErrors : AttemptFails(e)
    \/ WakeUp
    \/ \E r \in texts : AttemptSucceeds(r)
    \/ Finish
    \/ StoreSubmission
    \/ HandleError
    \/ UpdateQuizScore
    \/ Respond

\* requests arrive at a quiz that has no submission yet
NextSubmit ==
    \/ /\ submissions = <<>>
       /\ \E kind \in {"submit", "retry"}, u \in Users, q \in QuizIds,
             a \in SeqsUpTo(AnswerItems, MaxAnswers) :
                ReceiveRequest(kind, u, q, a)
    \/ HandlerSteps(EvalTexts)

SpecSubmit == InitSubmit /\ [][NextSubmit]_vars

\* the owner submits or retries with no answers, whatever totals the AI gives
NextTotals ==
    \/ /\ submissions = <<>>
       /\ \E kind \in {"submit", "retry"} :
             ReceiveRequest(kind, "u1", "quiz1", <<>>)
    \/ HandlerSteps(TotalsTexts)

SpecTotals == InitSubmit /\ [][NextTotals]_vars

----------------------------------------------------------------------------
(* The quiz routes, served side by side.  A call of the AI service is one  *)
(* step here: what it returns or throws is an outcome of the pipeline.     *)

routeFrame == <<pc, pipelineVars, handlerVars, extractVars, service>>

\* the handler of p goes on as proc
Becomes(p, proc) == procs' = [procs EXCEPT ![p] = proc]

\* res.status(status).json(...): the handler of proc is done
Done(proc, status, message, error, data) ==
    [proc EXCEPT !.pc = "done",
                 !.response = [status |-> status, message |-> message,
                               error |-> error, data |-> data]]

\* the characters of the error messages, and of the texts looked for in them
Chars ==
    ("401 Invalid API Key" :> <<"4", "0", "1", " ", "I", "n", "v", "a", "l",
          "i", "d", " ", "A", "P", "I", " ", "K", "e", "y">>)
    @@ ("403 Forbidden" :> <<"4", "0", "3", " ", "F", "o", "r", "b", "i",
          "d", "d", "e", "n">>)
    @@ ("authentication error" :> <<"a", "u", "t", "h", "e", "n", "t", "i",
          "c", "a", "t", "i", "o", "n", " ", "e", "r", "r", "o", "r">>)
    @@ ("429 Too Many Requests" :> <<"4", "2", "9", " ", "T", "o", "o", " ",
          "M", "a", "n", "y", " ", "R", "e", "q", "u", "e", "s", "t", "s">>)
    @@ ("Rate limit reached" :> <<"R", "a", "t", "e", " ", "l", "i", "m",
          "i", "t", " ", "r", "e", "a", "c", "h", "e", "d">>)
    @@ ("Missing api key" :> <<"M", "i", "s", "s", "i", "n", "g", " ", "a",
          "p", "i", " ", "k", "e", "y">>)
    @@ ("429 rate limit exceeded" :> <<"4", "2", "9", " ", "r", "a", "t",
          "e", " ", "l", "i", "m", "i", "t", " ", "e", "x", "c", "e", "e",
          "d", "e", "d">>)
    @@ ("network error" :> <<"n", "e", "t", "w", "o", "r", "k", " ", "e",
          "r", "r", "o", "r">>)
    @@ ("AI did not return valid JSON" :> <<"A", "I", " ", "d", "i", "d",
          " ", "n", "o", "t", " ", "r", "e", "t", "u", "r", "n", " ", "v",
          "a", "l", "i", "d", " ", "J", "S", "O", "N">>)
    @@ ("No quiz questions generated" :> <<"N", "o", " ", "q", "u", "i", "z",
          " ", "q", "u", "e", "s", "t", "i", "o", "n", "s", " ", "g", "e",
          "n", "e", "r", "a", "t", "e", "d">>)
    @@ ("TypeError" :> <<"T", "y", "p", "e", "E", "r", "r", "o", "r">>)
    @@ ("API" :> <<"A", "P", "I">>)
    @@ ("authentication" :> <<"a", "u", "t", "h", "e", "n", "t", "i", "c",
          "a", "t", "i", "o", "n">>)
    @@ ("401" :> <<"4", "0", "1">>)
    @@ ("403" :> <<"4", "0", "3">>)
    @@ ("rate limit" :> <<"r", "a", "t", "e", " ", "l", "i", "m", "i", "t">>)
    @@ ("429" :> <<"4", "2", "9">>)

\* error.message.includes(part)
Includes(e, part) ==
    \E i \in 1..(Len(Chars[e]) - Len(Chars[part]) + 1) :
        SubSeq(Chars[e], i, i + Len(Chars[part]) - 1) = Chars[part]

NotConfigured ==
    "AI service is not configured. Please check your API key and provider settings."
AuthenticationFailed ==
    "AI service authentication failed. Please check your API key."
RateLimitExceeded ==
    "AI service rate limit exceeded. Please try again in a moment."
GenerateFailed == "Failed to generate quiz"

UserMessageAuthFirst(e) ==
    IF Includes(e, "authentication") \/ Includes(e, "401") \/ Includes(e, "403")
    THEN AuthenticationFailed
    ELSE IF Includes(e, "API") THEN NotConfigured
    ELSE IF Includes(e, "rate limit") \/ Includes(e, "429")
    THEN RateLimitExceeded
    ELSE GenerateFailed

\* the userMessage of the catch block of POST /generate
UserMessage(e) ==
    IF Includes(e, "API") THEN NotConfigured
    ELSE IF Includes(e, "authentication") \/ Includes(e, "401")
            \/ Includes(e, "403")
    THEN AuthenticationFailed
    ELSE IF Includes(e, "rate limit") \/ Includes(e, "429")
    THEN RateLimitExceeded
    ELSE GenerateFailed

NewQuizOrPlaceholder(r, outcome) ==
    Returned([userId |-> r.userId, totalQuestions |-> r.numQuestions,
              maxScore |-> r.numQuestions * 10,
              questions |->
                  IF outcome.status = "ok" /\ outcome.list.t = "array"
                  THEN [i \in 1..Len(outcome.list.items) |->
                           [questionText |-> outcome.list.items[i].questionText,
                            correctAnswer |-> outcome.list.items[i].correctAnswer,
                            questionNumber |-> i]]
                  ELSE <<>>])

\* the data of prisma.quiz.create, or what is thrown before it: the error of
\* generateQuiz, or the TypeError of aiQuestions.map on what is no array
NewQuiz(r, outcome) ==
    IF outcome.status = "throw" THEN outcome
    ELSE IF outcome.list.t # "array" THEN Thrown(TypeError)
    ELSE Returned([userId |-> r.userId, totalQuestions |-> r.numQuestions,
                   maxScore |-> r.numQuestions * 10,
                   questions |->
                       [i \in 1..Len(outcome.list.items) |->
                           [questionText |-> outcome.list.items[i].questionText,
                            correctAnswer |-> outcome.list.items[i].correctAnswer,
                            questionNumber |-> i]]])

AnyUser(row, userId) == TRUE

\* quiz.userId !== userId, submission.userId !== userId
Owns(row, userId) == row.userId = userId

\* the where object of GET /history: a later key of the same name replaces
\* an earlier one, so subject replaces grade and to replaces from
Where(f) ==
    [grade |-> IF f.subject # Omitted THEN Omitted ELSE f.grade,
     subject |-> f.subject,
     from |-> IF f.to # Omitted THEN Omitted ELSE f.from,
     to |-> f.to,
     minMarks |-> f.minMarks]

\* a stored submission satisfies where
Matches(row, userId, w) ==
    /\ row.userId = userId
    /\ w.grade # Omitted => row.grade = w.grade[1]
    /\ w.subject # Omitted => row.subject = w.subject[1]
    /\ w.from # Omitted => row.createdAt >= w.from[1]
    /\ w.to # Omitted => row.createdAt <= w.to[1]
    /\ w.minMarks # Omitted => DoubleLeq(FromInt(w.minMarks[1]), row.percentage)

\* prisma.quizSubmission.findMany({ where }): the ids of the rows
FindMany(userId, w) ==
    {i \in 1..Len(submissions) : Matches(submissions[i], userId, w)}

\* a request passes authentication and validation, and its handler awaits
\* its first query
Receive(p, r) ==
    /\ procs[p].pc = "idle"
    /\ Becomes(p, [NoProc EXCEPT !.pc = "find", !.req = r])
    /\ UNCHANGED <<routeFrame, dbVars>>

\* POST /generate: prisma.quizSubmission.findMany has read the user's past
\* submissions for the prompt, and aiService.generateQuiz is called
PastQuizzes(p) ==
    /\ procs[p].pc = "find"
    /\ procs[p].req.kind = "generate"
    /\ Becomes(p, [procs[p] EXCEPT !.pc = "ai"])
    /\ UNCHANGED <<routeFrame, dbVars>>

\* prisma.quiz.findUnique of submit, retry, get quiz and hint: 404, 403, the
\* quiz, 404 for a question the quiz has not, or the handler goes on
FindQuiz(p) ==
    LET proc == procs[p]
        r == proc.req
    IN /\ proc.pc = "find"
       /\ r.kind \in {"submit", "retry", "getQuiz", "hint"}
       /\ IF r.quizId # quiz.id
          THEN Becomes(p, Done(proc, 404, "Quiz not found", "", <<>>))
          ELSE IF ~Owns(quiz, r.userId)
          THEN Becomes(p, Done(proc, 403, "Unauthorized", "", <<>>))
          ELSE IF r.kind = "getQuiz"
          THEN Becomes(p, Done(proc, 200, "", "", quiz))
          ELSE IF r.kind = "hint"
          THEN IF \A i \in 1..Len(quiz.questions) :
                      quiz.questions[i].id # r.questionId
               THEN Becomes(p, Done(proc, 404, "Question not found", "", <<>>))
               ELSE Becomes(p, [proc EXCEPT !.pc = "findHint"])
          ELSE Becomes(p, [proc EXCEPT !.pc = "ai"])
       /\ UNCHANGED <<routeFrame, dbVars>>

\* GET /submission/:submissionId: 404, 403 or the submission
FindSubmission(p) ==
    LET proc == procs[p]
        r == proc.req
    IN /\ proc.pc = "find"
       /\ r.kind = "getSubmission"
       /\ IF r.submissionId \notin 1..Len(submissions)
          THEN Becomes(p, Done(proc, 404, "Submission not found", "", <<>>))
          ELSE IF ~Owns(submissions[r.submissionId], r.userId)
          THEN Becomes(p, Done(proc, 403, "Unauthorized", "", <<>>))
          ELSE Becomes(p, Done(proc, 200, "", "", submissions[r.submissionId]))
       /\ UNCHANGED <<routeFrame, dbVars>>

\* GET /history: the rows findMany selects, and their number
FindHistory(p) ==
    LET proc == procs[p]
        r == proc.req
        found == FindMany(r.userId, Where(r.filters))
    IN /\ proc.pc = "find"
       /\ r.kind = "history"
       /\ Becomes(p, Done(proc, 200, "", "",
                          [count |-> Cardinality(found), submissions |-> found]))
       /\ UNCHANGED <<routeFrame, dbVars>>

\* prisma.hint.findFirst({ where: { questionId } }): a stored hint of the
\* question, whichever the table yields first, answers the request; with
\* none aiService.generateHint is called
FindHint(p) ==
    LET proc == procs[p]
        stored == {i \in 1..Len(hints) :
                      hints[i].questionId = proc.req.questionId}
    IN /\ proc.pc = "findHint"
       /\ IF stored = {}
          THEN Becomes(p, [proc EXCEPT !.pc = "ai"])
          ELSE \E i \in stored : Becomes(p, Done(proc, 200, "", "", hints[i]))
       /\ UNCHANGED <<routeFrame, dbVars>>

\* the awaited operation of the AI service returns or throws
AIReturns(p, outcome) ==
    /\ procs[p].pc = "ai"
    /\ Becomes(p, [procs[p] EXCEPT !.pc = "returned", !.outcome = outcome,
                                   !.asked = @ + 1])
    /\ UNCHANGED <<routeFrame, dbVars>>

\* POST /generate: prisma.quiz.create with its questions and the response,
\* or the catch block
CreateQuiz(p) ==
    LET proc == procs[p]
        new == NewQuiz(proc.req, proc.outcome)
    IN /\ proc.pc = "returned"
       /\ proc.req.kind = "generate"
       /\ IF new.status = "throw"
          THEN /\ Becomes(p, Done(proc, 500, UserMessage(new.err), new.err,
                                  <<>>))
               /\ UNCHANGED dbVars
          ELSE /\ generated' = Append(generated, new.val)
               /\ Becomes(p, Done([proc EXCEPT !.writes = @ + 1], 200, "", "",
                                  Len(generated) + 1))
               /\ UNCHANGED <<quiz, submissions, hints>>
       /\ UNCHANGED routeFrame

\* POST /submit and POST /retry/:quizId: prisma.quizSubmission.create, after
\* which retry responds, or the catch block
CreateSubmission(p) ==
    LET proc == procs[p]
        r == proc.req
    IN /\ proc.pc = "returned"
       /\ r.kind \in {"submit", "retry"}
       /\ IF proc.outcome.status = "throw"
          THEN /\ Becomes(p, Done(proc, 500, proc.outcome.err, "", <<>>))
               /\ UNCHANGED dbVars
          ELSE IF proc.outcome.val.kind = "null"
          THEN /\ Becomes(p, Done(proc, 500, TypeError, "", <<>>))
               /\ UNCHANGED dbVars
          ELSE /\ submissions' =
                     Append(submissions,
                            SubmissionOf(r, quiz, SortByNumber(quiz.questions),
                                         NoMap, proc.outcome.val))
               /\ Becomes(p,
                     IF r.kind = "submit"
                     THEN [proc EXCEPT !.pc = "stored",
                                       !.created = Len(submissions) + 1,
                                       !.writes = @ + 1]
                     ELSE Done([proc EXCEPT !.created = Len(submissions) + 1,
                                            !.writes = @ + 1],
                               200, "", "", Len(submissions) + 1))
               /\ UNCHANGED <<quiz, hints, generated>>
       /\ UNCHANGED routeFrame

\* POST /submit: prisma.quiz.update({ data: { score: submission.score } })
\* and the response
UpdateScore(p) ==
    LET proc == procs[p]
    IN /\ proc.pc = "stored"
       /\ quiz' = [quiz EXCEPT !.score = JNum(submissions[proc.created].score)]
       /\ Becomes(p, Done([proc EXCEPT !.writes = @ + 1], 200, "", "",
                          proc.created))
       /\ UNCHANGED <<routeFrame, submissions, hints, generated>>

\* GET /:quizId/hint/:questionId: prisma.hint.create and the response, or
\* the catch block
CreateHint(p) ==
    LET proc == procs[p]
        new == [id |-> Len(hints) + 1, questionId |-> proc.req.questionId,
                hintText |-> proc.outcome.txt]
    IN /\ proc.pc = "returned"
       /\ proc.req.kind = "hint"
       /\ IF proc.outcome.status = "throw"
          THEN /\ Becomes(p, Done(proc, 500, proc.outcome.err, "", <<>>))
               /\ UNCHANGED dbVars
          ELSE /\ hints' = Append(hints, new)
               /\ Becomes(p, Done([proc EXCEPT !.writes = @ + 1], 200, "", "",
                                  new))
               /\ UNCHANGED <<quiz, submissions, generated>>
       /\ UNCHANGED routeFrame

\* requests are served one after the other: p arrives when the requests
\* before it are answered
InTurn(p) == \A q \in 1..(p - 1) : procs[q].pc = "done"

InitRoutes ==
    /\ Parked
    /\ Idle
    /\ Started
    /\ EmptyTables
    /\ quiz = StoredQuiz(<<Q1, Q2>>)
    /\ submissions = <<>>

\* the lists of questions an AI response gives: one question, two, ...
ListOf(k) ==
    [i \in 1..k |->
        IF i % 2 = 1
        THEN [questionText |-> "Capital of France?", correctAnswer |-> "Paris"]
        ELSE [questionText |-> "Capital of Italy?", correctAnswer |-> "Rome"]]

\* what generateQuiz gives a handler: it throws for no JSON, null, no
\* questions and the errors of the backend, and returns the questions key
QuizOutcomes ==
    {generateQuizEnd(<<Val(JObject(f, Absent, Absent, NoField))>>) :
        f \in {Field(t, <<>>) : t \in {"absent", "object", "string", "array"}}
              \cup {Field("array", ListOf(k)) : k \in 1..MaxGen}}
    \cup {generateQuizEnd(<<Val(JNull)>>), generateQuizEnd(<<Prose>>)}
    \cup {Thrown(e) : e \in BackendErrors}

\* what evaluateQuiz gives a handler
EvalOutcomes ==
    {evaluateQuizEnd(t) : t \in {<<Val(SampleB)>>, <<Val(JNull)>>, <<Prose>>}}
    \cup {Thrown(e) : e \in BackendErrors}

\* the owner generates quizzes of one question, two, ..., submits and retries
FailureRoutes ==
    {Route("generate", "u1", "", "", 0, n, NoFilters) : n \in 1..MaxGen}
    \cup {Route(k, "u1", "quiz1", "", 0, 0, NoFilters) :
             k \in {"submit", "retry"}}

NextFailures ==
    \/ \E p \in ProcIds, r \in FailureRoutes : InTurn(p) /\ Receive(p, r)
    \/ \E p \in ProcIds : PastQuizzes(p)
    \/ \E p \in ProcIds : FindQuiz(p)
    \/ \E p \in ProcIds :
          \E o \in IF procs[p].req.kind = "generate" THEN QuizOutcomes
                   ELSE EvalOutcomes : AIReturns(p, o)
    \/ \E p \in ProcIds : CreateQuiz(p)
    \/ \E p \in ProcIds : CreateSubmission(p)
    \/ \E p \in ProcIds : UpdateScore(p)

SpecFailures == InitRoutes /\ [][NextFailures]_vars

\* messages of the errors generateQuiz throws
GenerateErrors ==
    {"401 Invalid API Key", "403 Forbidden", "authentication error",
     "429 Too Many Requests", "Rate limit reached", "Missing api key",
     "429 rate limit exceeded", "network error", InvalidJSON, NoQuestions,
     TypeError}

\* quizzes of one question are generated; generateQuiz throws, or returns
\* one question
NextGenerate ==
    \/ \E p \in ProcIds :
          InTurn(p) /\ Receive(p, Route("generate", "u1", "", "", 0, 1, NoFilters))
    \/ \E p \in ProcIds : PastQuizzes(p)
    \/ \E p \in ProcIds :
          \E o \in {Thrown(e) : e \in GenerateErrors}
                   \cup {ReturnedList(Field("array", ListOf(1)))} :
              AIReturns(p, o)
    \/ \E p \in ProcIds : CreateQuiz(p)

SpecGenerate == InitRoutes /\ [][NextGenerate]_vars

\* a submission stored earlier, with the grade and subject of its quiz
PastRow(userId, quizId, grade, subject, createdAt, score) ==
    [quizId |-> quizId, userId |-> userId, via |-> "submit", score |-> score,
     maxScore |-> 20, percentage |-> Percentage(score, 20),
     questionSubmissions |-> <<>>, createdAt |-> createdAt, grade |-> grade,
     subject |-> subject]

\* the submissions of two users, made on three days
PastSubmissions ==
    <<PastRow("u1", "quiz1", "5", "Math", 1, 10),
      PastRow("u1", "quiz2", "6", "Math", 2, 20),
      PastRow("u1", "quiz3", "5", "Science", 3, 4),
      PastRow("u2", "quiz4", "5", "Math", 2, 20)>>

\* the server has served submits before
InitPast ==
    /\ Parked
    /\ Idle
    /\ Started
    /\ EmptyTables
    /\ quiz = [StoredQuiz(<<Q1, Q2>>) EXCEPT !.score = JNum(10)]
    /\ submissions = PastSubmissions

\* the requests of the owner and of another user on the quiz, on a quiz
\* that is not stored, on questions and on submissions
AccessRoutes ==
    {Route(k, u, q, "", 0, 0, NoFilters) :
        k \in {"submit", "retry", "getQuiz"}, u \in Users, q \in QuizIds}
    \cup {Route("hint", u, q, n, 0, 0, NoFilters) :
             u \in Users, q \in QuizIds, n \in {"q1", "q9"}}
    \cup {Route("getSubmission", u, "", "", i, 0, NoFilters) :
             u \in Users, i \in {1, Len(PastSubmissions),
                                 Len(PastSubmissions) + MaxProcs + 1}}
    \cup {Route("history", u, "", "", 0, 0, NoFilters) : u \in Users}

NextAccess ==
    \/ \E p \in ProcIds, r \in AccessRoutes : InTurn(p) /\ Receive(p, r)
    \/ \E p \in ProcIds : FindQuiz(p)
    \/ \E p \in ProcIds : FindSubmission(p)
    \/ \E p \in ProcIds : FindHistory(p)
    \/ \E p \in ProcIds : FindHint(p)
    \/ \E p \in ProcIds :
          AIReturns(p, IF procs[p].req.kind = "hint"
                       THEN generateHintEnd(<<Space, Prose>>)
                       ELSE evaluateQuizEnd(<<Val(SampleB)>>))
    \/ \E p \in ProcIds : CreateSubmission(p)
    \/ \E p \in ProcIds : UpdateScore(p)
    \/ \E p \in ProcIds : CreateHint(p)

SpecAccess == InitPast /\ [][NextAccess]_vars

\* the queries of GET /history: every combination of the five filters
HistoryRoutes ==
    {Route("history", "u1", "", "", 0, 0,
           [grade |-> g, subject |-> s, from |-> f, to |-> t, minMarks |-> m]) :
        g \in {Omitted, Given("5")}, s \in {Omitted, Given("Math")},
        f \in {Omitted, Given(2)}, t \in {Omitted, Given(2)},
        m \in {Omitted, Given(50)}}
    \cup {Route("history", "u2", "", "", 0, 0, NoFilters)}

NextHistory ==
    \/ \E p \in ProcIds, r \in HistoryRoutes : InTurn(p) /\ Receive(p, r)
    \/ \E p \in ProcIds : FindHistory(p)

SpecHistory == InitPast /\ [][NextHistory]_vars

\* the owner asks for the hint of a question, submits and retries, the
\* requests being served side by side
RaceRoutes ==
    {Route("hint", "u1", "quiz1", "q1", 0, 0, NoFilters)}
    \cup {Route(k, "u1", "quiz1", "", 0, 0, NoFilters) :
             k \in {"submit", "retry"}}

\* the AI gives one hint or another, and a score of 7 or of 3
RaceOutcomes(kind) ==
    IF kind = "hint"
    THEN {generateHintEnd(t) : t \in {<<Prose>>, <<Prose, Space, Prose>>}}
    ELSE {evaluateQuizEnd(<<Val(JObject(NoField, JNum(n), JNum(10), NoField))>>) :
             n \in {7, 3}}

NextRaces ==
    \/ \E p \in ProcIds, r \in RaceRoutes : Receive(p, r)
    \/ \E p \in ProcIds : FindQuiz(p)
    \/ \E p \in ProcIds : FindHint(p)
    \/ \E p \in ProcIds :
          \E o \in RaceOutcomes(procs[p].req.kind) : AIReturns(p, o)
    \/ \E p \in ProcIds : CreateSubmission(p)
    \/ \E p \in ProcIds : UpdateScore(p)
    \/ \E p \in ProcIds : CreateHint(p)

SpecRaces == InitRoutes /\ [][NextRaces]_vars

----------------------------------------------------------------------------
(* extractJSON on every text *)

Alphabet == {Fence, JsonTag, Space, Prose, Val(SampleA), Val(SampleB)}

InitExtract ==
    /\ text \in SeqsUpTo(Alphabet, MaxLen)
    /\ extracted = NoOutcome
    /\ pc = "extract"
    /\ op = "none"
    /\ prompt = <<>>
    /\ retries = 0
    /\ delay = 0
    /\ attempts = 0
    /\ askCalls = 0
    /\ sleeps = <<>>
    /\ lastCall = NoCall
    /\ raw = NoRaw
    /\ result = NoOutcome
    /\ req = NoRequest
    /\ ordered = <<>>
    /\ answerMap = NoMap
    /\ response = NoResponse
    /\ Started
    /\ EmptyTables
    /\ quiz = StoredQuiz(<<Q1, Q2>>)
    /\ submissions = <<>>

Extract ==
    /\ pc = "extract"
    /\ extracted' = extractJSON(text)
    /\ pc' = "extracted"
    /\ UNCHANGED <<op, prompt, retries, delay, attempts, askCalls, sleeps,
                   lastCall, raw, result, text>>
    /\ UNCHANGED <<dbVars, handlerVars, hostVars>>

NextExtract == Extract

SpecExtract == InitExtract /\ [][NextExtract]_vars

----------------------------------------------------------------------------
(* Retry *)

\* withRetry gave up: the last backend call failed and no retry was left
Exhausted == pc = "raised" /\ lastCall.err # "none"

\* C1: when every attempt of the default budget fails, the caller of the
\* operation gets the error the backend raised at the final attempt, as it
\* was raised, and only after the fourth call and the sleeps of 700, 1400
\* and 2800 ms.
C1_RetryExhaustion ==
    /\ Exhausted =>
          /\ result.status = "throw"
          /\ result.err = lastCall.err
          /\ result.err \in BackendErrors
          /\ attempts = 4
          /\ sleeps = <<700, 1400, 2800>>
    /\ pc \in {"attempt", "sleep"} => result.status = "none"

C1_Witness ==
    /\ Exhausted
    /\ op = "generateQuiz"
    /\ result.err = "429 rate limit exceeded"

\* C2: when the first k attempts fail and attempt k + 1 succeeds, k in 0..3,
\* askAI returns what that attempt returned, no error is surfaced, and the
\* sleep before retry j was 700 * 2^(j-1) ms.
C2_RetrySuccess ==
    pc = "parse" =>
        LET k == attempts - 1
        IN /\ k \in 0..3
           /\ lastCall.ok
           /\ raw = lastCall.out
           /\ result.status = "none"
           /\ Len(sleeps) = k
           /\ \A j \in 1..k : sleeps[j] = 700 * 2^(j - 1)

C2_Witness ==
    /\ pc = "parse"
    /\ attempts = 3
    /\ sleeps = <<700, 1400>>
    /\ op = "evaluateQuiz"

C3_Safety ==
    /\ op # "none" => askCalls = 1
    /\ attempts <= 1 + 3
    /\ lastCall.ok => pc \notin {"attempt", "sleep"}
    /\ pc = "returned" => result.status = "ok"
    /\ pc = "raised" => result.status = "throw"

\* C3: an operation invokes askAI once, the backend is called at most 1 + 3
\* times in it, no call follows a successful one, and the operation ends by
\* returning or raising.
C3_OneRequest ==
    /\ []C3_Safety
    /\ (op # "none") ~> (pc \in {"returned", "raised"})

C3_Witness ==
    /\ pc = "parse"
    /\ attempts = 4
    /\ lastCall.ok
    /\ askCalls = 1
    /\ op = "generateHint"

----------------------------------------------------------------------------
(* Extraction *)

\* the candidates of the three steps and whether each parses
WholeParses == JSONParse(text).ok
JsonFenceParses ==
    MatchJsonFence(text).found /\ JSONParse(MatchJsonFence(text).cap).ok
AnyFenceParses ==
    MatchAnyFence(text).found /\ JSONParse(MatchAnyFence(text).cap).ok

\* C4: extractJSON returns the value of the first of the three steps that
\* parses, a step that has no candidate or whose candidate does not parse
\* falling through to the next.
C4_FirstSuccessWins ==
    pc = "extracted" =>
        /\ WholeParses => extracted = Returned(JSONParse(text).val)
        /\ ~WholeParses /\ JsonFenceParses =>
              extracted = Returned(JSONParse(MatchJsonFence(text).cap).val)
        /\ ~WholeParses /\ ~JsonFenceParses /\ AnyFenceParses =>
              extracted = Returned(JSONParse(MatchAnyFence(text).cap).val)

\* C5: when no step yields parseable JSON, extractJSON raises the
\* "AI did not return valid JSON" error and nothing else.
C5_TypedError ==
    pc = "extracted" /\ ~WholeParses /\ ~JsonFenceParses /\ ~AnyFenceParses =>
        extracted = Thrown(InvalidJSON)

----------------------------------------------------------------------------
(* Generation *)

\* the extracted value has no questions entry, or an empty one
NoEntries(v) ==
    \/ v.kind # "object"
    \/ v.questions.t \in {"absent", "null"}
    \/ v.questions.t = "array" /\ v.questions.items = <<>>

\* C6: what generateQuiz returns is a non-empty sequence of questions, the
\* one under the questions key; a value with no or an empty questions entry
\* makes it fail with the "no quiz questions generated" error.
C6_NonEmptyQuestions ==
    op = "generateQuiz" /\ pc \in {"returned", "raised"}
       /\ extractJSON(raw).status = "ok" =>
        /\ NoEntries(extractJSON(raw).val) => result = Thrown(NoQuestions)
        /\ pc = "returned" =>
              /\ result.list.t = "array"
              /\ result.list.items # <<>>
              /\ result.list = extractJSON(raw).val.questions

----------------------------------------------------------------------------
(* Reconciliation *)

\* a submission has been stored by the handler in flight
Stored == pc \in {"stored", "updated"}
Latest == submissions[Len(submissions)]

\* the evaluations array of the AI response, empty when there is none
AIItems ==
    IF result.val.evaluations.t = "array"
    THEN result.val.evaluations.items
    ELSE <<>>

\* the answer the request gives for a question: its last item for that
\* question, "" when the item carries no answer; none when there is no item
Submitted(answers, id) ==
    LET at == {i \in 1..Len(answers) : answers[i].questionId = id}
        last == CHOOSE i \in at : \A j \in at : j <= i
    IN IF at = {} THEN [given |-> FALSE, answer |-> ""]
       ELSE [given |-> TRUE,
             answer |-> IF answers[last].answer.t = "string"
                        THEN answers[last].answer.s ELSE ""]

\* C7: the stored isCorrect is the AI item's isCorrect when that is a
\* boolean, and otherwise the exact, case-sensitive equality of the stored
\* userAnswer and the question's correctAnswer.
C7_ReconciledCorrectness ==
    Stored =>
        \A i \in 1..Len(ordered) :
            LET qs == Latest.questionSubmissions[i]
                aiBool == i <= Len(AIItems) /\ AIItems[i].isCorrect.t = "boolean"
            IN /\ qs.questionId = ordered[i].id
               /\ aiBool => qs.isCorrect = AIItems[i].isCorrect.b
               /\ ~aiBool =>
                     qs.isCorrect = (qs.userAnswer = ordered[i].correctAnswer)

C7_Witness ==
    /\ Stored
    /\ AIItems # <<>>
    /\ AIItems[1].isCorrect.t = "string"
    /\ Latest.questionSubmissions[1].userAnswer = "paris"
    /\ ordered[1].correctAnswer = "Paris"
    /\ Latest.questionSubmissions[1].isCorrect = FALSE

C8_Stored ==
    Stored =>
        \A i \in 1..Len(ordered) :
            LET qs == Latest.questionSubmissions[i]
                id == ordered[i].id
                echoed == i <= Len(AIItems) /\ AIItems[i].userAnswer.t = "string"
            IN /\ id \in DOMAIN answerMap => qs.userAnswer = answerMap[id]
               /\ id \notin DOMAIN answerMap =>
                     qs.userAnswer = IF echoed THEN AIItems[i].userAnswer.s ELSE ""

C8_Lookup ==
    pc = "findQuiz" /\ pc' = "attempt" =>
        \A id \in {"q1", "q2"} :
            /\ id \in DOMAIN answerMap' <=> Submitted(req.answers, id).given
            /\ id \in DOMAIN answerMap' =>
                  answerMap'[id] = Submitted(req.answers, id).answer

\* C8: the stored userAnswer is the answer the request gave for the question;
\* the answer the AI echoed is stored only for a question the request gave no
\* answer for.
C8_ReconciledAnswer == []C8_Stored /\ [][C8_Lookup]_vars

C8_Witness ==
    /\ Stored
    /\ "q1" \in DOMAIN answerMap
    /\ answerMap["q1"] = "Paris"
    /\ AIItems # <<>>
    /\ AIItems[1].userAnswer = JStr("Rome")
    /\ Latest.questionSubmissions[1].userAnswer = "Paris"

\* C9: with an evaluations array shorter than the questions, or none, one
\* question submission is stored per question of the quiz, in the order of
\* the questions, and a question without an AI item gets the local equality.
C9_ShortEvaluations ==
    Stored =>
        /\ Len(Latest.questionSubmissions) = Len(quiz.questions)
        /\ {Latest.questionSubmissions[i].questionId :
               i \in 1..Len(Latest.questionSubmissions)}
           = {quiz.questions[i].id : i \in 1..Len(quiz.questions)}
        /\ \A i \in 1..Len(ordered) :
              /\ Latest.questionSubmissions[i].questionId = ordered[i].id
              /\ i > Len(AIItems) =>
                    Latest.questionSubmissions[i].isCorrect
                    = (Latest.questionSubmissions[i].userAnswer
                       = ordered[i].correctAnswer)

C9_Witness ==
    /\ Stored
    /\ Len(AIItems) = 1
    /\ Len(Latest.questionSubmissions) = 2
    /\ req.kind = "retry"
    /\ Latest.questionSubmissions[2].isCorrect = FALSE

\* C10: the questions handed to evaluateQuiz ascend by questionNumber, and
\* the i-th triple of the prompt pairs question i with the answer the request
\* gave for that question, "" when it gave none.
C10_Positional ==
    [][pc = "findQuiz" /\ pc' = "attempt" =>
          /\ Len(ordered') = Len(quiz.questions)
          /\ {ordered'[i] : i \in 1..Len(ordered')}
             = {quiz.questions[i] : i \in 1..Len(quiz.questions)}
          /\ \A i \in 1..(Len(ordered') - 1) :
                ordered'[i].questionNumber < ordered'[i + 1].questionNumber
          /\ Len(prompt') = Len(ordered')
          /\ \A i \in 1..Len(ordered') :
                prompt'[i] =
                    [questionText |-> ordered'[i].questionText,
                     correctAnswer |-> ordered'[i].correctAnswer,
                     userAnswer |-> Submitted(req.answers, ordered'[i].id).answer]
      ]_vars

C10_Witness ==
    /\ pc = "attempt"
    /\ req.kind = "submit"
    /\ quiz.questions = <<Q2, Q1>>
    /\ ordered = <<Q1, Q2>>
    /\ prompt[1].userAnswer = ""
    /\ prompt[2].userAnswer = "paris"

----------------------------------------------------------------------------
(* Totals *)

\* the AI response's maxScore when it has one, the quiz's otherwise
ClaimedMaxScore ==
    IF result.val.maxScore.t = "number" THEN result.val.maxScore.n
    ELSE quiz.maxScore

\* the AI response's maxScore when it is a number other than 0
UsedMaxScore ==
    IF result.val.maxScore.t = "number" /\ result.val.maxScore.n # 0
    THEN result.val.maxScore.n ELSE quiz.maxScore

\* C11 as claimed: the stored maxScore is the AI's maxScore whenever the
\* response has one, the quiz's otherwise, and the stored percentage is
\* score / maxScore * 100 of the stored columns, 70 for 7 and 10.
C11_AsClaimed ==
    Stored =>
        /\ Latest.maxScore = ClaimedMaxScore
        /\ Latest.percentage
           = DoubleTimes(DoubleDivide(Latest.score, Latest.maxScore), 100)

\* C11: the stored percentage is (score / maxScore) * 100 of the stored score
\* and maxScore, whatever percentage the AI response carries; maxScore is the
\* AI's when that is a number other than 0 and the quiz's otherwise; 7 and 10
\* give exactly 70, and a score equal to maxScore exactly 100.
C11_LocalPercentage ==
    Stored =>
        /\ Latest.score = IF result.val.score.t = "number"
                          THEN result.val.score.n ELSE 0
        /\ Latest.maxScore = UsedMaxScore
        /\ Latest.percentage
           = DoubleTimes(DoubleDivide(Latest.score, Latest.maxScore), 100)
        /\ Latest.score = 7 /\ Latest.maxScore = 10 =>
              Latest.percentage = FromInt(70)
        /\ Latest.score = Latest.maxScore => Latest.percentage = FromInt(100)
        /\ Latest.score = 0 => Latest.percentage.cls = "zero"

C11_Witness ==
    /\ Stored
    /\ result.val.percentage = JNum(99)
    /\ result.val.score = JNum(7)
    /\ result.val.maxScore = JNum(10)
    /\ Latest.percentage = FromInt(70)

\* C19: every stored submission has 0 <= score <= maxScore, maxScore > 0 and
\* a percentage between 0 and 100.
C19_TotalsInRange ==
    Stored =>
        /\ 0 <= Latest.score
        /\ Latest.score <= Latest.maxScore
        /\ Latest.maxScore > 0
        /\ ~Latest.percentage.neg
        /\ DoubleLeq(Latest.percentage, FromInt(100))

----------------------------------------------------------------------------
(* Configuration *)

\* the three recognized selector values
ThreeValues == {EnvSet(groq), EnvSet(openai), EnvSet(gemini)}

\* the settings the constructor accepts, and the provider each selects
Accepted ==
    [env \in {EnvUnset, EnvSet(<<>>), EnvSet(groq), EnvSet(GROQ)} |-> groq]
    @@ (EnvSet(openai) :> openai)
    @@ [env \in {EnvSet(gemini), EnvSet(Gemini)} |-> gemini]

\* a request never meets a service that has no backend to call
ServedOnlyConfigured ==
    /\ pc \notin {"startup", "crashed"} => service.state = "ready"
    /\ op # "none" =>
          /\ service.state = "ready"
          /\ service.provider \in {groq, openai, gemini}
    /\ result.err # InvalidProvider
    /\ lastCall.err # InvalidProvider

----------------------------------------------------------------------------
(* Failures *)

Answered(kinds) ==
    {p \in ProcIds : procs[p].pc = "done" /\ procs[p].req.kind \in kinds}

\* the requests whose AI call gave the handler something to store
Usable(p) ==
    /\ procs[p].outcome.status = "ok"
    /\ procs[p].req.kind = "generate" => procs[p].outcome.list.t = "array"
    /\ procs[p].req.kind # "generate" => procs[p].outcome.val.kind # "null"

\* C16: a request whose AI operation raised is answered 500 and has written
\* nothing; the stored quizzes and submissions are those of the requests the
\* AI service served, a quiz's questions are the ones the AI gave, and the
\* quiz has a score only from a submit the AI service served.
C16_FailureIsFatal ==
    /\ \A p \in Answered({"generate", "submit", "retry"}) :
          ~Usable(p) =>
              /\ procs[p].response.status = 500
              /\ procs[p].writes = 0
              /\ procs[p].created = 0
    /\ Len(generated) =
          Cardinality({p \in Answered({"generate"}) : Usable(p)})
    /\ Len(submissions) =
          Cardinality({p \in ProcIds :
                          /\ procs[p].req.kind \in {"submit", "retry"}
                          /\ procs[p].pc \in {"stored", "done"}
                          /\ Usable(p)})
    /\ \A i \in 1..Len(generated) :
          /\ generated[i].questions # <<>>
          /\ \A j \in 1..Len(generated[i].questions) :
                \E q \in AIQuestions :
                    /\ generated[i].questions[j].questionText = q.questionText
                    /\ generated[i].questions[j].correctAnswer = q.correctAnswer
    /\ quiz.score # Absent =>
          \E p \in Answered({"submit"}) :
              Usable(p) /\ quiz.score = JNum(submissions[procs[p].created].score)

C16_Witness ==
    /\ generated = <<>>
    /\ submissions = <<>>
    /\ quiz.score = Absent
    /\ \E p \in Answered({"generate"}), q \in Answered({"submit", "retry"}) :
          /\ procs[p].asked = 1
          /\ procs[p].outcome.status = "throw"
          /\ procs[p].response.status = 500
          /\ procs[q].asked = 1
          /\ procs[q].outcome.status = "throw"
          /\ procs[q].response.status = 500

\* C18: every stored quiz has as many question rows as its totalQuestions
\* says and a maxScore of 10 times that number, and its questions are
\* numbered 1..k in the order the AI gave them.
C18_TotalsMatchQuestions ==
    \A i \in 1..Len(generated) :
        LET g == generated[i]
        IN /\ g.totalQuestions = Len(g.questions)
           /\ g.maxScore = 10 * Len(g.questions)
           /\ \A j \in 1..Len(g.questions) : g.questions[j].questionNumber = j
           /\ \E p \in Answered({"generate"}) :
                 /\ procs[p].response.status = 200
                 /\ procs[p].response.data = i
                 /\ Len(procs[p].outcome.list.items) = Len(g.questions)
                 /\ \A j \in 1..Len(g.questions) :
                       g.questions[j].questionText =
                           procs[p].outcome.list.items[j].questionText

----------------------------------------------------------------------------
(* The catch block of POST /generate *)

Failures == {p \in Answered({"generate"}) : procs[p].outcome.status = "throw"}

\* C17 as claimed: a failed generation is answered 500 with the error's
\* message and the user message of its shape: authentication failed for
\* 401, 403 or authentication, rate limit exceeded for 429 or rate limit,
\* not configured for a credential- or config-shaped message, and the
\* generic message for any other.
C17_AsClaimed ==
    \A p \in Failures :
        LET e == procs[p].outcome.err
            auth == Includes(e, "401") \/ Includes(e, "403")
                    \/ Includes(e, "authentication")
            rate == Includes(e, "429") \/ Includes(e, "rate limit")
            config == Includes(e, "API")
        IN /\ procs[p].response.status = 500
           /\ procs[p].response.error = e
           /\ auth => procs[p].response.message = AuthenticationFailed
           /\ rate => procs[p].response.message = RateLimitExceeded
           /\ config => procs[p].response.message = NotConfigured
           /\ ~(auth \/ rate \/ config) =>
                 procs[p].response.message = GenerateFailed

\* C17: a failed generation is answered 500 with the error's message and
\* the user message of the first test the message passes: not configured
\* when it contains API; else authentication failed when it contains
\* authentication, 401 or 403; else rate limit exceeded when it contains
\* rate limit or 429; else the generic message.
C17_FirstMatch ==
    \A p \in Failures :
        LET e == procs[p].outcome.err
            auth == Includes(e, "401") \/ Includes(e, "403")
                    \/ Includes(e, "authentication")
            rate == Includes(e, "429") \/ Includes(e, "rate limit")
            config == Includes(e, "API")
        IN /\ procs[p].response.status = 500
           /\ procs[p].response.error = e
           /\ procs[p].writes = 0
           /\ config => procs[p].response.message = NotConfigured
           /\ ~config /\ auth =>
                 procs[p].response.message = AuthenticationFailed
           /\ ~config /\ ~auth /\ rate =>
                 procs[p].response.message = RateLimitExceeded
           /\ ~(auth \/ rate \/ config) =>
                 procs[p].response.message = GenerateFailed

C17_Witness ==
    \E p \in Failures :
        /\ procs[p].outcome.err = "401 Invalid API Key"
        /\ procs[p].response.message = NotConfigured
        /\ procs[p].response.error = "401 Invalid API Key"

----------------------------------------------------------------------------
(* Ownership *)

\* the request of p is for a quiz or a submission of another user
Stranger(p) ==
    LET r == procs[p].req
    IN \/ /\ r.kind \in {"submit", "retry", "getQuiz", "hint"}
          /\ r.quizId = quiz.id
          /\ r.userId # quiz.userId
       \/ /\ r.kind = "getSubmission"
          /\ r.submissionId \in 1..Len(submissions)
          /\ r.userId # submissions[r.submissionId].userId

----------------------------------------------------------------------------
(* Hints *)

\* the requests that asked generateHint for the hint of question n
AskedFor(n) ==
    {p \in ProcIds : /\ procs[p].req.kind = "hint"
                     /\ procs[p].req.questionId = n
                     /\ procs[p].asked > 0}

\* C14: at most one hint is stored per question, generateHint is invoked at
\* most once for a question as long as it succeeds, and every request for
\* the hint of a question is answered with the same stored hint.
C14_OneHintPerQuestion ==
    /\ \A i, j \in 1..Len(hints) :
          hints[i].questionId = hints[j].questionId => i = j
    /\ \A n \in {"q1", "q2"} : Cardinality(AskedFor(n)) <= 1
    /\ \A p, q \in Answered({"hint"}) :
          /\ procs[p].response.status = 200
          /\ procs[q].response.status = 200
          /\ procs[p].req.questionId = procs[q].req.questionId
          => procs[p].response.data = procs[q].response.data

----------------------------------------------------------------------------
(* History *)

\* the stored submissions of userId that satisfy every filter f supplies
Filtered(userId, f) ==
    {i \in 1..Len(submissions) :
        /\ submissions[i].userId = userId
        /\ f.grade # Omitted => submissions[i].grade = f.grade[1]
        /\ f.subject # Omitted => submissions[i].subject = f.subject[1]
        /\ f.from # Omitted => submissions[i].createdAt >= f.from[1]
        /\ f.to # Omitted => submissions[i].createdAt <= f.to[1]
        /\ f.minMarks # Omitted =>
              DoubleLeq(FromInt(f.minMarks[1]), submissions[i].percentage)}

\* C15: GET /history returns exactly the requester's submissions that
\* satisfy every supplied filter, and count is their number.
C15_EverySuppliedFilter ==
    \A p \in Answered({"history"}) :
        /\ procs[p].response.status = 200
        /\ procs[p].response.data.submissions =
              Filtered(procs[p].req.userId, procs[p].req.filters)
        /\ procs[p].response.data.count =
              Cardinality(procs[p].response.data.submissions)

----------------------------------------------------------------------------
(* The score of the quiz *)

SubmitRows == {i \in 1..Len(submissions) : submissions[i].via = "submit"}

\* C20: once the requests are answered, the score of the quiz is the score
\* of the submission created last through submit; retries, which create
\* submissions too, leave the quiz as it was.
C20_ScoreOfLatestSubmit ==
    (\A p \in ProcIds : procs[p].pc \in {"idle", "done"}) =>
        IF SubmitRows = {} THEN quiz.score = Absent
        ELSE quiz.score =
                 JNum(submissions[CHOOSE i \in SubmitRows :
                                     \A j \in SubmitRows : j <= i].score)

====
